---- MODULE Spec2Model ----
(***************************************************************************)
(* Model of hfd.py: the download-plan derivation (fingerprint, pattern     *)
(* matcher, plan generator, plan invalidator) and the retry orchestrator   *)
(* of main().                                                              *)
(*                                                                         *)
(* Text is modelled as a sequence of one-character strings.  An optional   *)
(* value (Python None, a file that may not exist) is a sequence of length  *)
(* 0 (absent) or 1 (present).                                              *)
(***************************************************************************)
EXTENDS Integers, Sequences, FiniteSets, TLC

VARIABLES
    localIsCwd,   \* args.local_dir names the directory the process starts in
    metaFile,     \* .hfd/repo_metadata.json            (optional manifest)
    cmdFile,      \* .hfd/last_download_command         (optional text)
    planFile,     \* .hfd/{tool}_urls.txt, per tool     (optional list of lines)
    planProv,     \* history: fingerprint under which each plan file was written
    invocations,  \* number of processes started so far
    args,         \* argparse namespace of the running process
    pc,           \* position of the running process in main()
    response,     \* local `response` of main() (optional manifest)
    inval,        \* history: what should_regenerate_filelist saw and returned
    todo,         \* generate_file_list: plan entries not yet written
    max_retries,  \* local of main()
    attempt,      \* local of main()
    launches,     \* number of Popen calls of this process
    rcs,          \* return codes of the finished downloader invocations
    exit,         \* how the process ended
    prev,         \* history: the previous process, if it was complete and
                  \* started with no record and no plan
    probe,        \* inputs and outputs of the pure-function harnesses
    metaFor,      \* history: the api_url the cached metadata was fetched from
    tainted,      \* history of the directory: some process was interrupted,
                  \* the downloader rewrote a plan file
    hist          \* history of the running process: curl runs, whether the
                  \* metadata cache existed at start, the stages entered

vars == <<localIsCwd, metaFile, cmdFile, planFile, planProv, invocations, args,
          pc, response, inval, todo, max_retries, attempt, launches, rcs, exit,
          prev, probe, metaFor, tainted, hist>>

files == <<metaFile, metaFor, cmdFile, planFile, planProv>>
run == <<max_retries, attempt, launches, rcs>>

----------------------------------------------------------------------------
(* Bounds *)

MaxInvocations == 3
MaxRetries == 2
MaxPatterns == 2
MaxSiblings == 2
MaxSize == 2

----------------------------------------------------------------------------
(* Text helpers *)

NoneV == <<>>
Some(x) == <<x>>
IsNone(o) == o = <<>>
Get(o) == o[1]

Whitespace == {" ", "\t", "\n", "\r", "\f"}

RECURSIVE Join(_, _)
\* sep.join(parts)
Join(sep, parts) ==
    IF parts = <<>> THEN <<>>
    ELSE IF Len(parts) = 1 THEN parts[1]
    ELSE parts[1] \o sep \o Join(sep, Tail(parts))

RECURSIVE LStrip(_)
LStrip(s) ==
    IF s # <<>> /\ Head(s) \in Whitespace THEN LStrip(Tail(s)) ELSE s

RECURSIVE RStrip(_)
RStrip(s) ==
    IF s # <<>> /\ s[Len(s)] \in Whitespace
    THEN RStrip(SubSeq(s, 1, Len(s) - 1)) ELSE s

\* str.strip()
Strip(s) == RStrip(LStrip(s))

\* os.path.dirname / os.path.basename: split at the last "/"
LastSlash(s) ==
    IF \E i \in 1..Len(s) : s[i] = "/"
    THEN CHOOSE i \in 1..Len(s) : s[i] = "/" /\ \A j \in (i+1)..Len(s) : s[j] # "/"
    ELSE 0

Basename(s) == SubSeq(s, LastSlash(s) + 1, Len(s))

RECURSIVE DropTrailingSlashes(_)
DropTrailingSlashes(s) ==
    IF s # <<>> /\ s[Len(s)] = "/" /\ \E i \in 1..Len(s) : s[i] # "/"
    THEN DropTrailingSlashes(SubSeq(s, 1, Len(s) - 1)) ELSE s

Dirname(s) == DropTrailingSlashes(SubSeq(s, 1, LastSlash(s)))

----------------------------------------------------------------------------
(* generate_command_string *)

Tools == {"aria2c", "wget"}

ToolText(t) ==
    IF t = "aria2c" THEN <<"a", "r", "i", "a", "2", "c">>
    ELSE <<"w", "g", "e", "t">>

\* main(): args.hf_endpoint
hf_endpoint(a) ==
    IF a.enable_mirror
    THEN <<"h", "t", "t", "p", "s", ":", "/", "/", "h", "f", "-", "m", "i", "r",
           "r", "o", "r", ".", "c", "o", "m">>
    ELSE <<"h", "t", "t", "p", "s", ":", "/", "/", "h", "u", "g", "g", "i", "n",
           "g", "f", "a", "c", "e", ".", "c", "o">>

\* main() 216-227: args.api_url
api_url(a) ==
    hf_endpoint(a) \o <<"/", "a", "p", "i", "/">>
        \o (IF a.dataset THEN <<"d", "a", "t", "a", "s", "e", "t", "s", "/">>
            ELSE <<"m", "o", "d", "e", "l", "s", "/">>)
        \o a.repo_id
        \o (IF a.revision # <<"m", "a", "i", "n">>
            THEN <<"/", "r", "e", "v", "i", "s", "i", "o", "n", "/">> \o a.revision
            ELSE <<>>)

\* `x or ''` for an optional text
OrEmpty(o) == IF IsNone(o) THEN <<>> ELSE Get(o)

\* truthiness of an optional text
Truthy(o) == ~IsNone(o) /\ Get(o) # <<>>

generate_command_string(a) ==
    Join(<<" ">>, <<
        <<"R", "E", "P", "O", "_", "I", "D", "=">> \o a.repo_id,
        <<"T", "O", "O", "L", "=">> \o ToolText(a.tool),
        <<"I", "N", "C", "L", "U", "D", "E", "_", "P", "A", "T", "T", "E", "R",
          "N", "S", "=">> \o Join(<<" ">>, a.include),
        <<"E", "X", "C", "L", "U", "D", "E", "_", "P", "A", "T", "T", "E", "R",
          "N", "S", "=">> \o Join(<<" ">>, a.exclude),
        <<"D", "A", "T", "A", "S", "E", "T", "=">>
            \o (IF a.dataset THEN <<"1">> ELSE <<"0">>),
        <<"H", "F", "_", "U", "S", "E", "R", "N", "A", "M", "E", "=">>
            \o OrEmpty(a.hf_username),
        <<"H", "F", "_", "T", "O", "K", "E", "N", "=">> \o OrEmpty(a.hf_token),
        <<"H", "F", "_", "E", "N", "D", "P", "O", "I", "N", "T", "=">>
            \o hf_endpoint(a),
        <<"R", "E", "V", "I", "S", "I", "O", "N", "=">> \o a.revision >>)

----------------------------------------------------------------------------
(* Pattern matcher of generate_file_list *)

\* the characters re.escape puts a backslash before
ReSpecial == {"(", ")", "[", "]", "{", "}", "?", "*", "+", "-", "|", "^", "$",
              "\\", ".", "&", "~", "#", " ", "\t", "\n", "\r", "\f"}

RECURSIVE ReEscape(_)
\* re.escape(p)
ReEscape(p) ==
    IF p = <<>> THEN <<>>
    ELSE (IF Head(p) \in ReSpecial THEN <<"\\", Head(p)>> ELSE <<Head(p)>>)
         \o ReEscape(Tail(p))

RECURSIVE ReplaceStar(_)
\* s.replace(r'\*', '.*')
ReplaceStar(s) ==
    IF Len(s) < 2 THEN s
    ELSE IF s[1] = "\\" /\ s[2] = "*"
         THEN <<".", "*">> \o ReplaceStar(SubSeq(s, 3, Len(s)))
         ELSE <<s[1]>> \o ReplaceStar(Tail(s))

\* '|'.join(re.escape(p).replace(r'\*', '.*') for p in patterns) if patterns else ""
PatternRegex(patterns) ==
    IF patterns = <<>> THEN <<>>
    ELSE Join(<<"|">>, [i \in 1..Len(patterns) |-> ReplaceStar(ReEscape(patterns[i]))])

RECURSIVE ReAlternatives(_, _)
\* the regular expression read as its top-level alternatives, each a list of
\* items: a literal character, `.` or `.*`
ReAlternatives(re, cur) ==
    IF re = <<>> THEN <<cur>>
    ELSE IF re[1] = "\\" /\ Len(re) >= 2
         THEN ReAlternatives(SubSeq(re, 3, Len(re)),
                             Append(cur, [k |-> "lit", c |-> re[2]]))
    ELSE IF re[1] = "|"
         THEN <<cur>> \o ReAlternatives(Tail(re), <<>>)
    ELSE IF re[1] = "." /\ Len(re) >= 2 /\ re[2] = "*"
         THEN ReAlternatives(SubSeq(re, 3, Len(re)),
                             Append(cur, [k |-> "any", c |-> ""]))
    ELSE IF re[1] = "."
         THEN ReAlternatives(Tail(re), Append(cur, [k |-> "dot", c |-> ""]))
    ELSE ReAlternatives(Tail(re), Append(cur, [k |-> "lit", c |-> re[1]]))

RECURSIVE ReMatchAt(_, _, _)
\* the items match a substring of s that starts at position i
ReMatchAt(items, s, i) ==
    IF items = <<>> THEN TRUE
    ELSE IF Head(items).k = "lit"
         THEN i <= Len(s) /\ s[i] = Head(items).c /\ ReMatchAt(Tail(items), s, i + 1)
    ELSE IF Head(items).k = "dot"
         THEN i <= Len(s) /\ s[i] # "\n" /\ ReMatchAt(Tail(items), s, i + 1)
    ELSE \E j \in i..(Len(s) + 1) :
            /\ \A n \in i..(j - 1) : s[n] # "\n"
            /\ ReMatchAt(Tail(items), s, j)

\* re.search(regex, s) is not None
ReSearch(regex, s) ==
    LET alts == ReAlternatives(regex, <<>>) IN
    \E a \in 1..Len(alts) : \E i \in 1..(Len(s) + 1) : ReMatchAt(alts[a], s, i)

IncludeOk(include_regex, file) ==
    include_regex = <<>> \/ ReSearch(include_regex, file)

ExcludeOk(exclude_regex, file) ==
    exclude_regex = <<>> \/ ~ReSearch(exclude_regex, file)

\* the filter condition of generate_file_list
Selected(a, file) ==
    /\ IncludeOk(PatternRegex(a.include), file)
    /\ ExcludeOk(PatternRegex(a.exclude), file)

----------------------------------------------------------------------------
(* generate_file_list *)

RECURSIVE SelectSeq2(_, _)
\* the files of fs that pass the filter, in order
SelectSeq2(a, fs) ==
    IF fs = <<>> THEN <<>>
    ELSE (IF Selected(a, Head(fs)) THEN <<Head(fs)>> ELSE <<>>)
         \o SelectSeq2(a, Tail(fs))

RECURSIVE NamedSiblings(_)
\* [sib['rfilename'] for sib in data.get('siblings', []) if sib.get('rfilename')]
NamedSiblings(sibs) ==
    IF sibs = <<>> THEN <<>>
    ELSE (IF Head(sibs).rfilename # <<>> THEN <<Head(sibs).rfilename>> ELSE <<>>)
         \o NamedSiblings(Tail(sibs))

\* the file names generate_file_list reads from the response: the parsed
\* siblings, or the result of the "rfilename" scan when json.loads fails
ManifestFiles(m) == IF m.parses THEN NamedSiblings(m.siblings) ELSE m.scanned

\* main(): args.download_api_path
download_api_path(a) ==
    IF a.dataset THEN <<"d", "a", "t", "a", "s", "e", "t", "s", "/">> \o a.repo_id
    ELSE a.repo_id

Url(a, file) ==
    hf_endpoint(a) \o <<"/">> \o download_api_path(a)
        \o <<"/", "r", "e", "s", "o", "l", "v", "e", "/">> \o a.revision
        \o <<"/">> \o file

EntryLines_NoHeader(a, file) ==
    IF a.tool = "aria2c"
    THEN << Url(a, file),
            <<" ", " ", "d", "i", "r", "=">> \o Dirname(file),
            <<" ", " ", "o", "u", "t", "=">> \o Basename(file),
            <<>> >>
    ELSE << Url(a, file) >>

\* the lines written to the plan file for one file
EntryLines(a, file) ==
    IF a.tool = "aria2c"
    THEN << Url(a, file),
            <<" ", " ", "d", "i", "r", "=">> \o Dirname(file),
            <<" ", " ", "o", "u", "t", "=">> \o Basename(file) >>
         \o (IF Truthy(a.hf_token)
             THEN << <<" ", " ", "h", "e", "a", "d", "e", "r", "=", "A", "u", "t",
                       "h", "o", "r", "i", "z", "a", "t", "i", "o", "n", ":", " ",
                       "B", "e", "a", "r", "e", "r", " ">> \o Get(a.hf_token) >>
             ELSE <<>>)
         \o << <<>> >>
    ELSE << Url(a, file) >>

RECURSIVE AllLines(_, _)
AllLines(a, fs) ==
    IF fs = <<>> THEN <<>> ELSE EntryLines(a, Head(fs)) \o AllLines(a, Tail(fs))

\* the complete content generate_file_list writes for (args, response)
generate_file_list(a, m) == AllLines(a, SelectSeq2(a, ManifestFiles(m)))

----------------------------------------------------------------------------
(* Inputs of the process model *)

BaseArgs ==
    [ repo_id |-> <<"r">>, tool |-> "aria2c", include |-> <<>>, exclude |-> <<>>,
      dataset |-> FALSE, hf_username |-> NoneV, hf_token |-> NoneV,
      enable_mirror |-> FALSE, revision |-> <<"m">> ]

\* the command lines a process may be started with
ArgSets ==
    { BaseArgs,
      [BaseArgs EXCEPT !.include = << <<"a">> >>],
      [BaseArgs EXCEPT !.revision = <<"m", " ">>],
      [BaseArgs EXCEPT !.tool = "wget"],
      [BaseArgs EXCEPT !.tool = "wget", !.include = << <<"a">> >>],
      [BaseArgs EXCEPT !.hf_username = Some(<<"u">>), !.hf_token = Some(<<"t">>)] }

\* the values of --max_retries (type=int: any integer is accepted)
RetryValues == (-1)..MaxRetries

\* the bodies the metadata endpoint may return
Manifests ==
    { [ parses |-> TRUE, gated |-> g, literal_gated |-> g,
        siblings |-> << [rfilename |-> <<"a">>, size |-> Some(1)],
                        [rfilename |-> <<"d", "/", "b">>, size |-> NoneV] >>,
        scanned |-> << <<"a">>, <<"d", "/", "b">> >> ] : g \in BOOLEAN }
    \cup
    \* a body json.loads rejects (truncated), with or without the text "gated":true
    { [ parses |-> FALSE, gated |-> FALSE, literal_gated |-> g,
        siblings |-> <<>>,
        scanned |-> << <<"a">> >> ] : g \in BOOLEAN }

\* exit codes of the external downloader
ReturnCodes == {0, 1}

NoInval == [decided |-> FALSE, clean |-> FALSE, saved |-> NoneV,
            hadPlan |-> FALSE, regen |-> FALSE, wroteCmd |-> FALSE,
            wrotePlan |-> FALSE]

NoExit == [how |-> "none", status |-> 0]

NoPrev == [valid |-> FALSE, args |-> BaseArgs, regen |-> FALSE]

NoProbe == [kind |-> "none"]

NotTainted == [interrupted |-> FALSE, rewritten |-> FALSE]

NoHist == [fetches |-> 0, hadCache |-> FALSE, stages |-> <<>>]

\* hist after the process has entered a stage
Entered(stage) == [hist EXCEPT !.stages = Append(@, stage)]

----------------------------------------------------------------------------
(* The process: main() *)

Init ==
    /\ localIsCwd \in BOOLEAN
    /\ metaFile = NoneV
    /\ cmdFile = NoneV
    /\ planFile = [t \in Tools |-> NoneV]
    /\ planProv = [t \in Tools |-> NoneV]
    /\ invocations = 0
    /\ args = BaseArgs
    /\ pc = "idle"
    /\ response = NoneV
    /\ inval = NoInval
    /\ todo = <<>>
    /\ max_retries = 0
    /\ attempt = 0
    /\ launches = 0
    /\ rcs = <<>>
    /\ exit = NoExit
    /\ prev = NoPrev
    /\ probe = NoProbe
    /\ metaFor = NoneV
    /\ tainted = NotTainted
    /\ hist = NoHist

Running == pc \notin {"idle", "exited"}

\* sys.exit(status) / return from main()
Exit(how, status) ==
    /\ pc' = "exited"
    /\ exit' = [how |-> how, status |-> status]

\* the process ran to the end of the retry orchestrator
Complete == pc = "exited" /\ exit.how \in {"success", "returned", "exhausted"}

\* a new process is started in the same working directory
Start ==
    /\ ~Running
    /\ invocations < MaxInvocations
    /\ invocations' = invocations + 1
    /\ \E a \in ArgSets : args' = a
    /\ pc' = "load"
    /\ response' = NoneV
    /\ inval' = [NoInval EXCEPT
                    !.clean = IsNone(cmdFile) /\ \A t \in Tools : IsNone(planFile[t])]
    /\ todo' = <<>>
    /\ max_retries' = 0 /\ attempt' = 0 /\ launches' = 0 /\ rcs' = <<>>
    /\ exit' = NoExit
    /\ prev' = IF pc = "exited" /\ inval.clean /\ Complete
               THEN [valid |-> TRUE, args |-> args, regen |-> inval.regen]
               ELSE NoPrev
    /\ hist' = [NoHist EXCEPT !.hadCache = ~IsNone(metaFile)]
    /\ UNCHANGED <<localIsCwd, files, probe, tainted>>

\* signal_handler, or the process dying, at any point of main()
Interrupt ==
    /\ Running
    /\ Exit("interrupted", 1)
    /\ tainted' = [tainted EXCEPT !.interrupted = TRUE]
    /\ UNCHANGED <<localIsCwd, files, invocations, args, response, inval, todo,
                   run, prev, probe, hist>>

\* main() 234-236 with fetch_and_save_metadata: curl succeeded
FetchOk ==
    /\ pc = "load"
    /\ IsNone(metaFile)
    /\ \E m \in Manifests :
        /\ metaFile' = Some(m)
        /\ response' = Some(m)
    /\ metaFor' = Some(api_url(args))
    /\ hist' = [Entered("cache") EXCEPT !.fetches = @ + 1]
    /\ pc' = "auth"
    /\ UNCHANGED <<localIsCwd, cmdFile, planFile, planProv, invocations, args,
                   inval, todo, run, exit, prev, probe, tainted>>

FetchFailed_KeepsPartialFile ==
    /\ pc = "load"
    /\ IsNone(metaFile)
    /\ metaFile' = Some(CHOOSE m \in Manifests : ~m.parses /\ ~m.literal_gated)
    /\ metaFor' = Some(api_url(args))
    /\ hist' = [Entered("cache") EXCEPT !.fetches = @ + 1]
    /\ Exit("fetch_error", 1)
    /\ UNCHANGED <<localIsCwd, cmdFile, planFile, planProv, invocations, args,
                   response, inval, todo, run, prev, probe, tainted>>

\* fetch_and_save_metadata: curl failed
FetchFailed ==
    /\ pc = "load"
    /\ IsNone(metaFile)
    /\ metaFile' = NoneV
    /\ metaFor' = NoneV
    /\ hist' = [Entered("cache") EXCEPT !.fetches = @ + 1]
    /\ Exit("fetch_error", 1)
    /\ UNCHANGED <<localIsCwd, cmdFile, planFile, planProv, invocations, args,
                   response, inval, todo, run, prev, probe, tainted>>

ReadCachedMetadata_Refetches ==
    /\ pc = "load"
    /\ ~IsNone(metaFile)
    /\ \E m \in Manifests :
        /\ metaFile' = Some(m)
        /\ response' = Some(m)
    /\ metaFor' = Some(api_url(args))
    /\ hist' = [Entered("cache") EXCEPT !.fetches = @ + 1]
    /\ pc' = "auth"
    /\ UNCHANGED <<localIsCwd, cmdFile, planFile, planProv, invocations, args,
                   inval, todo, run, exit, prev, probe, tainted>>

\* main() 238-241
ReadCachedMetadata ==
    /\ pc = "load"
    /\ ~IsNone(metaFile)
    /\ response' = metaFile
    /\ hist' = Entered("cache")
    /\ pc' = "auth"
    /\ UNCHANGED <<localIsCwd, files, invocations, args, inval, todo, run, exit,
                   prev, probe, tainted>>

AuthRequired_ParsedOnly(m, a) ==
    /\ m.parses /\ m.gated
    /\ (~Truthy(a.hf_token) \/ ~Truthy(a.hf_username))

\* check_authentication: the condition under which it exits
AuthRequired(m, a) ==
    /\ IF m.parses THEN m.gated ELSE m.literal_gated
    /\ (~Truthy(a.hf_token) \/ ~Truthy(a.hf_username))

CheckAuthenticationFails ==
    /\ pc = "auth"
    /\ AuthRequired(Get(response), args)
    /\ Exit("auth_required", 1)
    /\ UNCHANGED <<localIsCwd, files, invocations, args, response, inval, todo,
                   run, prev, probe, tainted, hist>>

CheckAuthenticationPasses ==
    /\ pc = "auth"
    /\ ~AuthRequired(Get(response), args)
    /\ pc' = "inval"
    /\ UNCHANGED <<localIsCwd, files, invocations, args, response, inval, todo,
                   run, exit, prev, probe, tainted, hist>>

\* should_regenerate_filelist: first test (line 116)
PlanOrCommandMissing(plan, cmd) == IsNone(plan) \/ IsNone(cmd)

CommandChanged_Never(current_command, cmd) == FALSE

\* should_regenerate_filelist: second test (lines 122-125)
CommandChanged(current_command, cmd) == current_command # Strip(Get(cmd))

\* should_regenerate_filelist 116-120; the small write of the record is taken
\* as one step
RegenerateMissing ==
    /\ pc = "inval"
    /\ PlanOrCommandMissing(planFile[args.tool], cmdFile)
    /\ inval' = [inval EXCEPT !.decided = TRUE, !.saved = cmdFile,
                              !.hadPlan = ~IsNone(planFile[args.tool]),
                              !.regen = TRUE, !.wroteCmd = TRUE]
    /\ cmdFile' = Some(generate_command_string(args))
    /\ pc' = "unlink"
    /\ hist' = Entered("invalidator")
    /\ UNCHANGED <<localIsCwd, metaFile, metaFor, planFile, planProv, invocations,
                   args, response, todo, run, exit, prev, probe, tainted>>

\* should_regenerate_filelist 122-128
RegenerateChanged ==
    /\ pc = "inval"
    /\ ~PlanOrCommandMissing(planFile[args.tool], cmdFile)
    /\ CommandChanged(generate_command_string(args), cmdFile)
    /\ inval' = [inval EXCEPT !.decided = TRUE, !.saved = cmdFile,
                              !.hadPlan = TRUE, !.regen = TRUE, !.wroteCmd = TRUE]
    /\ cmdFile' = Some(generate_command_string(args))
    /\ pc' = "unlink"
    /\ hist' = Entered("invalidator")
    /\ UNCHANGED <<localIsCwd, metaFile, metaFor, planFile, planProv, invocations,
                   args, response, todo, run, exit, prev, probe, tainted>>

\* should_regenerate_filelist 129, main() 249-250
ReusePlan ==
    /\ pc = "inval"
    /\ ~PlanOrCommandMissing(planFile[args.tool], cmdFile)
    /\ ~CommandChanged(generate_command_string(args), cmdFile)
    /\ inval' = [inval EXCEPT !.decided = TRUE, !.saved = cmdFile,
                              !.hadPlan = TRUE, !.regen = FALSE]
    /\ hist' = Entered("invalidator")
    /\ pc' = "launch"
    /\ UNCHANGED <<localIsCwd, files, invocations, args, response, todo, run,
                   exit, prev, probe, tainted>>

\* main() 245-246: args.fileslist_file is relative to the directory the process
\* started in, so the plan file of local_dir is removed only when local_dir is
\* that directory
UnlinkOldPlan ==
    /\ pc = "unlink"
    /\ IF localIsCwd /\ ~IsNone(planFile[args.tool])
       THEN /\ planFile' = [planFile EXCEPT ![args.tool] = NoneV]
            /\ planProv' = [planProv EXCEPT ![args.tool] = NoneV]
            /\ inval' = [inval EXCEPT !.wrotePlan = TRUE]
       ELSE UNCHANGED <<planFile, planProv, inval>>
    /\ pc' = "gen"
    /\ UNCHANGED <<localIsCwd, metaFile, metaFor, cmdFile, invocations, args,
                   response, todo, run, exit, prev, probe, tainted, hist>>

\* generate_file_list 134-147 (160-164): filter, open(fileslist_file, 'w')
GenerateOpen ==
    /\ pc = "gen"
    /\ todo' = SelectSeq2(args, ManifestFiles(Get(response)))
    /\ planFile' = [planFile EXCEPT ![args.tool] = Some(<<>>)]
    /\ planProv' = [planProv EXCEPT ![args.tool] =
                      Some([fp |-> generate_command_string(args), complete |-> FALSE])]
    /\ inval' = [inval EXCEPT !.wrotePlan = TRUE]
    /\ hist' = Entered("generator")
    /\ pc' = "genwrite"
    /\ UNCHANGED <<localIsCwd, metaFile, metaFor, cmdFile, invocations, args,
                   response, run, exit, prev, probe, tainted>>

\* generate_file_list 148-158: one iteration of the write loop
GenerateWrite ==
    /\ pc = "genwrite"
    /\ todo # <<>>
    /\ planFile' = [planFile EXCEPT ![args.tool] =
                      Some(Get(planFile[args.tool]) \o EntryLines(args, Head(todo)))]
    /\ todo' = Tail(todo)
    /\ UNCHANGED <<localIsCwd, metaFile, metaFor, cmdFile, planProv, invocations,
                   args, pc, response, inval, run, exit, prev, probe, tainted, hist>>

\* generate_file_list: the with block ends, main() 252-271
GenerateClose ==
    /\ pc = "genwrite"
    /\ todo = <<>>
    /\ planProv' = [planProv EXCEPT ![args.tool] =
                      Some([Get(planProv[args.tool]) EXCEPT !.complete = TRUE])]
    /\ pc' = "launch"
    /\ UNCHANGED <<localIsCwd, metaFile, metaFor, cmdFile, planFile, invocations,
                   args, response, inval, todo, run, exit, prev, probe, tainted, hist>>

----------------------------------------------------------------------------
(* The retry orchestrator: main() 274-309 *)

\* while attempt < max_retries
LoopGuard(a, m) == a < m

Succeeded_NonZero(rc) == rc # 0

\* if process.returncode == 0
Succeeded(rc) == rc = 0

BudgetExhausted_Beyond(a, m) == a > m

\* if attempt == max_retries
BudgetExhausted(a, m) == a = m

RECURSIVE SplitEntries(_, _)
\* the entries of an aria2c input file, each ended by its blank line
SplitEntries(lines, cur) ==
    IF lines = <<>> THEN (IF cur = <<>> THEN <<>> ELSE <<cur>>)
    ELSE IF Head(lines) = <<>>
         THEN <<Append(cur, <<>>)>> \o SplitEntries(Tail(lines), <<>>)
    ELSE SplitEntries(Tail(lines), Append(cur, Head(lines)))

RECURSIVE KeepEntries(_, _, _)
\* the lines of the entries whose index is in S, in order
KeepEntries(entries, i, S) ==
    IF i > Len(entries) THEN <<>>
    ELSE (IF i \in S THEN entries[i] ELSE <<>>) \o KeepEntries(entries, i + 1, S)

\* main() 261-262: aria2c is run with `-i fileslist_file --save-session
\* fileslist_file`, so on exit it may replace the plan file by the entries of
\* the downloads that did not finish (none after a zero exit, at least one
\* after a nonzero exit of a non-empty plan); the session text is taken to be
\* the input text of the entries kept
SavedSessions(lines, rc) ==
    LET entries == SplitEntries(lines, <<>>) IN
    { KeepEntries(entries, 1, S) :
        S \in { T \in SUBSET (1..Len(entries)) :
                  IF rc = 0 THEN T = {} ELSE (T # {} \/ entries = <<>>) } }

\* process.wait() returns rc: what the downloader has done to the directory
DownloaderExits(rc) ==
    /\ rcs' = Append(rcs, rc)
    /\ IF args.tool = "aria2c" /\ ~IsNone(planFile[args.tool])
       THEN \E c \in SavedSessions(Get(planFile[args.tool]), rc)
                        \cup { Get(planFile[args.tool]) } :
                planFile' = [planFile EXCEPT ![args.tool] = Some(c)]
       ELSE planFile' = planFile
    /\ tainted' = [tainted EXCEPT !.rewritten = @ \/ planFile' # planFile]
    /\ UNCHANGED <<metaFile, metaFor, cmdFile, planProv>>

\* main() 274: the first Popen
LaunchFirst ==
    /\ pc = "launch"
    /\ launches' = launches + 1
    /\ hist' = Entered("orchestrator")
    /\ pc' = "run0"
    /\ UNCHANGED <<localIsCwd, files, invocations, args, response, inval, todo,
                   max_retries, attempt, rcs, exit, prev, probe, tainted>>

\* main() 277-286: the first downloader exits, its return code is not read;
\* max_retries = args.max_retries is drawn here, where main() first reads it
FirstExits ==
    /\ pc = "run0"
    /\ \E rc \in ReturnCodes : DownloaderExits(rc)
    /\ \E n \in RetryValues : max_retries' = n
    /\ attempt' = 0
    /\ pc' = "loop"
    /\ UNCHANGED <<localIsCwd, invocations, args, response, inval, todo,
                   launches, exit, prev, probe, hist>>

\* main() 287-291
LoopLaunch ==
    /\ pc = "loop"
    /\ LoopGuard(attempt, max_retries)
    /\ attempt' = attempt + 1
    /\ launches' = launches + 1
    /\ pc' = "run"
    /\ UNCHANGED <<localIsCwd, files, invocations, args, response, inval, todo,
                   max_retries, rcs, exit, prev, probe, tainted, hist>>

\* main() 287: the loop ends without break, main() returns
LoopEnds ==
    /\ pc = "loop"
    /\ ~LoopGuard(attempt, max_retries)
    /\ Exit("returned", 0)
    /\ UNCHANGED <<localIsCwd, files, invocations, args, response, inval, todo,
                   run, prev, probe, tainted, hist>>

\* main() 302-304: break, main() returns
AttemptSucceeds ==
    /\ pc = "run"
    /\ \E rc \in ReturnCodes :
        /\ Succeeded(rc)
        /\ DownloaderExits(rc)
    /\ Exit("success", 0)
    /\ UNCHANGED <<localIsCwd, invocations, args, response, inval, todo,
                   max_retries, attempt, launches, prev, probe, hist>>

\* main() 305-306
AttemptFailsRetry ==
    /\ pc = "run"
    /\ \E rc \in ReturnCodes :
        /\ ~Succeeded(rc)
        /\ DownloaderExits(rc)
    /\ ~BudgetExhausted(attempt, max_retries)
    /\ pc' = "loop"
    /\ UNCHANGED <<localIsCwd, invocations, args, response, inval, todo,
                   max_retries, attempt, launches, exit, prev, probe, hist>>

\* main() 305-309
AttemptFailsExhausted ==
    /\ pc = "run"
    /\ \E rc \in ReturnCodes :
        /\ ~Succeeded(rc)
        /\ DownloaderExits(rc)
    /\ BudgetExhausted(attempt, max_retries)
    /\ Exit("exhausted", 1)
    /\ UNCHANGED <<localIsCwd, invocations, args, response, inval, todo,
                   max_retries, attempt, launches, prev, probe, hist>>

Next ==
    \/ Start
    \/ Interrupt
    \/ FetchOk
    \/ FetchFailed
    \/ ReadCachedMetadata
    \/ CheckAuthenticationFails
    \/ CheckAuthenticationPasses
    \/ RegenerateMissing
    \/ RegenerateChanged
    \/ ReusePlan
    \/ UnlinkOldPlan
    \/ GenerateOpen
    \/ GenerateWrite
    \/ GenerateClose
    \/ LaunchFirst
    \/ FirstExits
    \/ LoopLaunch
    \/ LoopEnds
    \/ AttemptSucceeds
    \/ AttemptFailsRetry
    \/ AttemptFailsExhausted

Spec == Init /\ [][Next]_vars

----------------------------------------------------------------------------
(* Properties of the process model (specification Spec) *)

AllFailed == rcs # <<>> /\ \A i \in 1..Len(rcs) : rcs[i] # 0

CurrentFingerprint == generate_command_string(args)

\* C1: every downloader launch uses a plan file that was completely generated
\* under the fingerprint of the process that launches it, also when earlier
\* processes were interrupted between the fingerprint write and the end of
\* plan generation
C1_LaunchUsesOwnCompletePlan ==
    pc \in {"run0", "run"} =>
        /\ ~IsNone(planFile[args.tool])
        /\ planProv[args.tool] = Some([fp |-> CurrentFingerprint, complete |-> TRUE])

\* C2: once a downloader invocation has exited with status zero, the first one
\* included, no further invocation is launched and the process ends with
\* status zero
C2_NoLaunchAfterZeroExit ==
    \A i \in 1..Len(rcs) :
        rcs[i] = 0 =>
            /\ launches = i
            /\ (pc = "exited" /\ exit.how # "interrupted" => exit.status = 0)

\* C3: for every max_retries, the process ends with status 0 only if the last
\* downloader invocation exited with zero, and with status 1 if every
\* invocation exited nonzero
C3_ExitStatusFollowsLastReturnCode ==
    /\ (pc = "exited" /\ exit.status = 0) => (rcs # <<>> /\ rcs[Len(rcs)] = 0)
    /\ (Complete /\ AllFailed) => exit.status = 1

\* C4: with N = max_retries >= 1 and a downloader that always fails, the counted
\* attempts are numbered 1..N after one uncounted launch, nothing is launched
\* once the counter equals N, and the process makes exactly N+1 launches and
\* ends with a nonzero status
C4_AlwaysFailingUsesWholeBudget ==
    (max_retries >= 1 /\ AllFailed) =>
        /\ attempt <= max_retries
        /\ launches = attempt + 1
        /\ (attempt = max_retries /\ Len(rcs) = launches => pc = "exited")
        /\ Complete => /\ launches = max_retries + 1
                       /\ Len(rcs) = max_retries + 1
                       /\ exit.status # 0

C4_Witness ==
    /\ Complete /\ AllFailed
    /\ max_retries = MaxRetries
    /\ launches = MaxRetries + 1
    /\ exit.status = 1

\* C5: if counted attempt k is the first counted attempt that exits with zero,
\* exactly k counted attempts are made and the process ends with status zero
C5_StopsAtFirstCountedSuccess ==
    \A k \in 1..(Len(rcs) - 1) :
        (rcs[k + 1] = 0 /\ \A j \in 1..(k - 1) : rcs[j + 1] # 0) =>
            /\ k <= max_retries
            /\ attempt = k
            /\ launches = k + 1
            /\ Len(rcs) = k + 1
            /\ pc = "exited"
            /\ exit.status = 0

C5_Witness ==
    /\ Complete
    /\ rcs = <<1, 1, 0>>
    /\ attempt = 2
    /\ exit.status = 0

\* C6: of two consecutive complete processes with identical parameters that
\* start from a directory with no record and no plan, the first generates the
\* plan and the second reuses it and writes neither the record nor the plan
C6_SecondRunReusesPlan ==
    (prev.valid /\ prev.args = args /\ Complete) =>
        /\ prev.regen
        /\ ~inval.regen
        /\ ~inval.wroteCmd
        /\ ~inval.wrotePlan

\* C11: whenever a process generates a plan, the manifest it uses was fetched
\* from the api_url of its own repo id, dataset flag, endpoint and revision,
\* also after the parameters changed between complete runs
C11_PlanBuiltFromOwnManifest ==
    (~tainted.interrupted /\ pc = "genwrite") => metaFor = Some(api_url(args))

\* the manifest is gated: its parsed flag is true, or it does not parse and
\* contains the text "gated":true
Gated(m) == (m.parses /\ m.gated) \/ (~m.parses /\ m.literal_gated)

NothingWrittenOrLaunched ==
    /\ ~inval.decided
    /\ ~inval.wroteCmd
    /\ ~inval.wrotePlan
    /\ launches = 0

\* C12: with a gated manifest, fetched or cached, and no credentials the process
\* exits with status 1 before the fingerprint is written, a plan is generated or
\* the downloader is launched
C12_GatedWithoutCredentialsStops ==
    (/\ ~IsNone(response)
     /\ Gated(Get(response))
     /\ (IsNone(args.hf_username) \/ IsNone(args.hf_token))) =>
        /\ pc \in {"auth", "exited"}
        /\ pc = "exited" => exit.status = 1
        /\ NothingWrittenOrLaunched

C12_Witness ==
    /\ pc = "exited" /\ exit.how = "auth_required" /\ exit.status = 1
    /\ hist.hadCache
    /\ ~Get(response).parses
    /\ ~IsNone(cmdFile)

\* C13: a failed metadata fetch is not retried: the process exits with status 1
\* after one curl run, leaves no metadata cache file, has not touched the
\* fingerprint record or a plan file and has not launched the downloader
C13_FetchFailureLeavesNoCache ==
    (pc = "exited" /\ exit.how = "fetch_error") =>
        /\ exit.status = 1
        /\ hist.fetches = 1
        /\ IsNone(metaFile)
        /\ NothingWrittenOrLaunched

C13_Witness ==
    /\ pc = "exited" /\ exit.how = "fetch_error"
    /\ hist.fetches = 1
    /\ invocations >= 2

\* C14: when the cache file exists at start the process uses its content and
\* runs no fetch; otherwise it runs exactly one fetch; in both cases the
\* manifest in hand is the content of the cache file
C14_LoadOrFetch ==
    ~IsNone(response) =>
        /\ response = metaFile
        /\ hist.fetches = (IF hist.hadCache THEN 0 ELSE 1)

C14_Witness ==
    /\ pc = "auth"
    /\ hist.hadCache
    /\ hist.fetches = 0
    /\ response = metaFile

\* C7: should_regenerate_filelist returns true iff there was no record, or no
\* plan file of the current tool, or the persisted fingerprint differs from the
\* current one
C7_RegenerateIffMissingOrDifferent ==
    inval.decided =>
        (inval.regen <=>
            \/ IsNone(inval.saved)
            \/ ~inval.hadPlan
            \/ Get(inval.saved) # CurrentFingerprint)

----------------------------------------------------------------------------
(* Harness for generate_command_string and generate_file_list as functions  *)
(* of the parameters (specification SpecFp)                                 *)

RECURSIVE SeqsUpTo(_, _)
\* the sequences over S of length at most n
SeqsUpTo(S, n) ==
    IF n = 0 THEN { <<>> }
    ELSE SeqsUpTo(S, n - 1)
         \cup { Append(q, x) : q \in { r \in SeqsUpTo(S, n - 1) : Len(r) = n - 1 },
                               x \in S }

FpPatterns == { <<"a">>, <<"b">>, <<"a", " ", "b">> }

\* first parameter set of a pair
FpArgs ==
    { [BaseArgs EXCEPT !.tool = t, !.include = i, !.exclude = e, !.revision = r] :
        t \in Tools,
        i \in SeqsUpTo(FpPatterns, MaxPatterns),
        e \in SeqsUpTo({ <<"b">> }, 1),
        r \in { <<"m">>, <<"v">> } }

\* the parameter sets that differ from a in exactly one parameter
OneParameterChanged(a) ==
    { [a EXCEPT !.repo_id = <<"s">>],
      [a EXCEPT !.tool = IF a.tool = "aria2c" THEN "wget" ELSE "aria2c"],
      [a EXCEPT !.exclude = IF a.exclude = <<>> THEN << <<"a">> >> ELSE <<>>],
      [a EXCEPT !.dataset = TRUE],
      [a EXCEPT !.hf_username = Some(<<"u">>)],
      [a EXCEPT !.hf_token = Some(<<"t">>)],
      [a EXCEPT !.enable_mirror = TRUE],
      [a EXCEPT !.revision = IF a.revision = <<"m">> THEN <<"v">> ELSE <<"m">>] }
    \cup { [a EXCEPT !.include = i] :
             i \in SeqsUpTo(FpPatterns, MaxPatterns) \ { a.include } }

ProbeManifest == CHOOSE m \in Manifests : m.parses /\ ~m.gated

QuietProcess ==
    /\ localIsCwd = FALSE
    /\ metaFile = NoneV
    /\ cmdFile = NoneV
    /\ planFile = [t \in Tools |-> NoneV]
    /\ planProv = [t \in Tools |-> NoneV]
    /\ invocations = 0
    /\ args = BaseArgs
    /\ pc = "idle"
    /\ response = NoneV
    /\ inval = NoInval
    /\ todo = <<>>
    /\ max_retries = 0
    /\ attempt = 0
    /\ launches = 0
    /\ rcs = <<>>
    /\ exit = NoExit
    /\ prev = NoPrev
    /\ metaFor = NoneV
    /\ tainted = NotTainted
    /\ hist = NoHist

process == <<localIsCwd, files, invocations, args, pc, response, inval, todo,
             run, exit, prev, tainted, hist>>

InitFp ==
    /\ QuietProcess
    /\ \E a \in FpArgs : \E b \in OneParameterChanged(a) \cup {a} :
         probe = [kind |-> "fp", a |-> a, b |-> b, step |-> 0,
                  fa |-> <<>>, fb |-> <<>>, pa |-> <<>>, pb |-> <<>>]

\* should_regenerate_filelist 113 for both parameter sets
ComputeFingerprints ==
    /\ probe.kind = "fp" /\ probe.step = 0
    /\ probe' = [probe EXCEPT !.step = 1,
                              !.fa = generate_command_string(probe.a),
                              !.fb = generate_command_string(probe.b)]
    /\ UNCHANGED process

\* main() 248 for both parameter sets, on the same manifest
GeneratePlans ==
    /\ probe.kind = "fp" /\ probe.step = 1
    /\ probe' = [probe EXCEPT !.step = 2,
                              !.pa = generate_file_list(probe.a, ProbeManifest),
                              !.pb = generate_file_list(probe.b, ProbeManifest)]
    /\ UNCHANGED process

NextFp == ComputeFingerprints \/ GeneratePlans

SpecFp == InitFp /\ [][NextFp]_vars

\* C8: the fingerprint is injective on the parameters: identical parameter
\* sets give identical fingerprints and parameter sets that differ in one
\* parameter give different fingerprints
C8_FingerprintInjective ==
    (probe.kind = "fp" /\ probe.step >= 1) =>
        (probe.fa = probe.fb <=> probe.a = probe.b)

\* C9: on the same manifest, parameter sets with identical fingerprints give
\* identical plans
C9_SameFingerprintSamePlan ==
    (probe.kind = "fp" /\ probe.step = 2) =>
        (probe.fa = probe.fb => probe.pa = probe.pb)

----------------------------------------------------------------------------
(* Harness for the file filter of generate_file_list (specification         *)
(* SpecMatch)                                                               *)

MatchPatterns == { <<>>, <<"*">>, <<"a">>, <<".">>, <<"a", "*", "b">> }

MatchPaths ==
    { q \in SeqsUpTo({"a", "b", "."}, 2) : q # <<>> }

InitMatch ==
    /\ QuietProcess
    /\ \E p \in MatchPaths :
       \E i \in SeqsUpTo(MatchPatterns, MaxPatterns) :
       \E e \in SeqsUpTo(MatchPatterns, MaxPatterns) :
         probe = [kind |-> "match", p |-> p, include |-> i, exclude |-> e,
                  done |-> FALSE, selected |-> FALSE]

\* generate_file_list 134-145 for one file
ApplyFilter ==
    /\ probe.kind = "match" /\ ~probe.done
    /\ probe' = [probe EXCEPT
                    !.done = TRUE,
                    !.selected = Selected([BaseArgs EXCEPT !.include = probe.include,
                                                           !.exclude = probe.exclude],
                                          probe.p)]
    /\ UNCHANGED process

NextMatch == ApplyFilter

SpecMatch == InitMatch /\ [][NextMatch]_vars

RECURSIVE GlobAt(_, _, _)
\* the pattern, `*` read as any substring and every other character literally,
\* matches a substring of s that starts at position i
GlobAt(pat, s, i) ==
    IF pat = <<>> THEN TRUE
    ELSE IF Head(pat) = "*"
         THEN \E j \in i..(Len(s) + 1) : GlobAt(Tail(pat), s, j)
    ELSE i <= Len(s) /\ s[i] = Head(pat) /\ GlobAt(Tail(pat), s, i + 1)

GlobMatches(pat, s) == \E i \in 1..(Len(s) + 1) : GlobAt(pat, s, i)

AnyMatches(pats, s) == \E k \in 1..Len(pats) : GlobMatches(pats[k], s)

\* C10: a file is selected iff (I is empty or some pattern of I matches it) and
\* not (E is non-empty and some pattern of E matches it), also for lists that
\* contain the empty pattern
C10_SelectedIffIncludeAndNotExclude ==
    (probe.kind = "match" /\ probe.done) =>
        (probe.selected <=>
            /\ (probe.include = <<>> \/ AnyMatches(probe.include, probe.p))
            /\ ~(probe.exclude # <<>> /\ AnyMatches(probe.exclude, probe.p)))

\* C17: once the invalidator has returned, the persisted fingerprint is the
\* fingerprint of the running process, and the plan file is not written before
\* the fingerprint
C17_FingerprintPersistedOnEveryComparison ==
    /\ (inval.decided => cmdFile = Some(CurrentFingerprint))
    /\ (inval.wrotePlan => inval.wroteCmd)

\* C18: from the first launch of a process on, no step changes a plan file or
\* the fingerprint record
C18_PlanAndFingerprintFrozenAfterLaunch ==
    [][(launches >= 1 /\ launches' >= 1) =>
            (planFile' = planFile /\ cmdFile' = cmdFile)]_vars

\* C19: a process that ends after the orchestrator reached Succeeded has run
\* the verifier, after the orchestrator
C19_VerifierRunsAfterSuccess ==
    (pc = "exited" /\ exit.how = "success") =>
        \E i, j \in 1..Len(hist.stages) :
            /\ i < j
            /\ hist.stages[i] = "orchestrator"
            /\ hist.stages[j] = "verifier"

\* the fingerprint is one a process started for tool t writes
FingerprintNames(fp, t) ==
    \E a \in ArgSets : a.tool = t /\ fp = generate_command_string(a)

\* C20: without interruptions and downloader writes, when a process has ended
\* the plan file of the tool named in the persisted fingerprint exists and was
\* generated under that fingerprint, and after a complete process that tool is
\* the one the process ran
C20_PersistedFingerprintOwnsItsPlan ==
    (pc = "exited" /\ ~tainted.interrupted /\ ~tainted.rewritten
        /\ ~IsNone(cmdFile)) =>
        /\ \A t \in Tools :
              FingerprintNames(Get(cmdFile), t) =>
                  /\ ~IsNone(planFile[t])
                  /\ planProv[t] = Some([fp |-> Get(cmdFile), complete |-> TRUE])
        /\ (Complete => FingerprintNames(Get(cmdFile), args.tool))

C20_Witness ==
    /\ pc = "exited" /\ Complete
    /\ ~tainted.interrupted /\ ~tainted.rewritten
    /\ invocations = 3
    /\ args.tool = "aria2c"
    /\ inval.hadPlan /\ inval.regen
    /\ ~IsNone(inval.saved) /\ FingerprintNames(Get(inval.saved), "wget")
    /\ ~IsNone(planFile["wget"])
    /\ planProv["aria2c"] = Some([fp |-> CurrentFingerprint, complete |-> TRUE])

----------------------------------------------------------------------------
(* Harness for verify_files (specification SpecVerify)                      *)

VerifyNames == { <<"a">>, <<"b">> }

\* sib.get('size'): absent, or an integer
DeclaredSizes == { NoneV } \cup { Some(n) : n \in 0..MaxSize }

\* the local file: absent, or its st_size
LocalSizes == { NoneV } \cup { Some(n) : n \in 0..MaxSize }

\* `if expected_size`: None and 0 are false
SizeTruthy(size) == ~IsNone(size) /\ Get(size) # 0

RECURSIVE verify_files(_, _)
\* verify_files(local_dir, metadata) on the parsed siblings and the sizes of the
\* files under local_dir
verify_files(sibs, disk) ==
    IF sibs = <<>> THEN TRUE
    ELSE IF /\ SizeTruthy(Head(sibs).size)
            /\ ~IsNone(disk[Head(sibs).rfilename])
            /\ Get(disk[Head(sibs).rfilename]) # Get(Head(sibs).size)
         THEN FALSE
    ELSE verify_files(Tail(sibs), disk)

InitVerify ==
    /\ QuietProcess
    /\ \E sibs \in SeqsUpTo([rfilename : VerifyNames, size : DeclaredSizes],
                            MaxSiblings) :
       \E disk \in [VerifyNames -> LocalSizes] :
         probe = [kind |-> "verify", siblings |-> sibs, disk |-> disk,
                  done |-> FALSE, result |-> FALSE]

\* one call of verify_files
ApplyVerify ==
    /\ probe.kind = "verify" /\ ~probe.done
    /\ probe' = [probe EXCEPT !.done = TRUE,
                              !.result = verify_files(probe.siblings, probe.disk)]
    /\ UNCHANGED process

NextVerify == ApplyVerify

SpecVerify == InitVerify /\ [][NextVerify]_vars

\* C15: verify_files returns false iff some manifest entry has a declared size,
\* 0 included, and its local file exists with a different length
C15_VerifyFalseIffSizeMismatch ==
    (probe.kind = "verify" /\ probe.done) =>
        (~probe.result <=>
            \E i \in 1..Len(probe.siblings) :
                /\ ~IsNone(probe.siblings[i].size)
                /\ ~IsNone(probe.disk[probe.siblings[i].rfilename])
                /\ Get(probe.disk[probe.siblings[i].rfilename])
                     # Get(probe.siblings[i].size))

----------------------------------------------------------------------------
(* Harness for generate_file_list on arbitrary manifests (specification     *)
(* SpecPlan)                                                                *)

PlanNames == { <<"a">>, <<"d", "/", "b">>, <<"c", ".", "m", "d">> }

PlanArgs ==
    { [BaseArgs EXCEPT !.tool = t, !.include = i, !.exclude = e, !.dataset = d,
                       !.hf_token = k, !.enable_mirror = mi, !.revision = r] :
        t \in Tools,
        i \in { <<>>, << <<"a">> >>, << <<"d", "/", "*">>, <<"c">> >> },
        e \in { <<>>, << <<"*", ".", "m", "d">> >> },
        d \in BOOLEAN,
        k \in { NoneV, Some(<<"t">>) },
        mi \in BOOLEAN,
        r \in { <<"m", "a", "i", "n">>, <<"v">> } }

\* a body with the given sibling names: well-formed, or one that json.loads
\* rejects and in which the "rfilename" scan finds the same names
PlanManifests ==
    { [ parses |-> ok, gated |-> FALSE, literal_gated |-> FALSE,
        siblings |-> [i \in 1..Len(names) |->
                        [rfilename |-> names[i], size |-> NoneV]],
        scanned |-> names ] :
        ok \in BOOLEAN, names \in SeqsUpTo(PlanNames, MaxSiblings) }

InitPlan ==
    /\ QuietProcess
    /\ \E a \in PlanArgs : \E m \in PlanManifests :
         probe = [kind |-> "plan", a |-> a, m |-> m, done |-> FALSE,
                  plan |-> <<>>]

\* one call of generate_file_list
ApplyGenerate ==
    /\ probe.kind = "plan" /\ ~probe.done
    /\ probe' = [probe EXCEPT !.done = TRUE,
                              !.plan = generate_file_list(probe.a, probe.m)]
    /\ UNCHANGED process

NextPlan == ApplyGenerate

SpecPlan == InitPlan /\ [][NextPlan]_vars

\* the positions of the siblings the filter selects
SelectedPositions(a, names) == { i \in 1..Len(names) : Selected(a, names[i]) }

\* the position of the k-th selected sibling
NthSelected(a, names, k) ==
    CHOOSE i \in SelectedPositions(a, names) :
        Cardinality({ j \in SelectedPositions(a, names) : j < i }) = k - 1

\* {endpoint}/{downloadPathPrefix}/resolve/{revision}/{relativePath}
ResolveUrl(a, path) ==
    Join(<<"/">>, << hf_endpoint(a), download_api_path(a),
                     <<"r", "e", "s", "o", "l", "v", "e">>, a.revision, path >>)

\* the part of the path after its last "/"
BaseName(path) ==
    CHOOSE b \in { SubSeq(path, i, Len(path)) : i \in 1..(Len(path) + 1) } :
        /\ \A n \in 1..Len(b) : b[n] # "/"
        /\ (Len(b) = Len(path) \/ path[Len(path) - Len(b)] = "/")

\* the part of the path before its last "/", empty for a file at the root
ParentDir(path) ==
    IF Len(BaseName(path)) = Len(path) THEN <<>>
    ELSE SubSeq(path, 1, Len(path) - Len(BaseName(path)) - 1)

Directive(key, value) == <<" ", " ">> \o key \o <<"=">> \o value

BearerHeader(a) ==
    Directive(<<"h", "e", "a", "d", "e", "r">>,
              <<"A", "u", "t", "h", "o", "r", "i", "z", "a", "t", "i", "o", "n",
                ":", " ", "B", "e", "a", "r", "e", "r", " ">> \o Get(a.hf_token))

\* the entry of the line-oriented tool for one path
ExpectedEntry(a, path) ==
    << ResolveUrl(a, path),
       Directive(<<"d", "i", "r">>, ParentDir(path)),
       Directive(<<"o", "u", "t">>, BaseName(path)) >>
    \o (IF IsNone(a.hf_token) THEN <<>> ELSE << BearerHeader(a) >>)
    \o << <<>> >>

\* C16: the plan holds, in manifest order, exactly one entry per selected
\* sibling, with the resolve URL; for aria2c each entry has the parent
\* directory, the base name and the bearer header exactly when a token is set
C16_PlanIsSelectedSiblingsInOrder ==
    (probe.kind = "plan" /\ probe.done) =>
        LET a == probe.a
            names == probe.m.scanned
            n == Cardinality(SelectedPositions(a, names))
            entries == SplitEntries(probe.plan, <<>>)
        IN  IF a.tool = "aria2c"
            THEN /\ Len(entries) = n
                 /\ \A k \in 1..n :
                      entries[k] = ExpectedEntry(a, names[NthSelected(a, names, k)])
            ELSE /\ Len(probe.plan) = n
                 /\ \A k \in 1..n :
                      probe.plan[k] = ResolveUrl(a, names[NthSelected(a, names, k)])

C16_Witness ==
    /\ probe.kind = "plan" /\ probe.done
    /\ probe.a.tool = "aria2c"
    /\ ~IsNone(probe.a.hf_token)
    /\ probe.m.scanned = << <<"c", ".", "m", "d">>, <<"d", "/", "b">> >>
    /\ SelectedPositions(probe.a, probe.m.scanned) = {2}
    /\ Len(probe.plan) = 5

====
